---- MODULE Spec2Model ----
(***************************************************************************)
(* The payment orchestration hook usePaymentService                        *)
(* (src/src/hooks/usePaymentService.ts): five asynchronous flows and one   *)
(* query over the shared state pair isProcessing / error.                  *)
(*                                                                         *)
(* An invocation of a flow is an async function: it runs synchronously up  *)
(* to its first await, is suspended while the awaited external call is     *)
(* pending, and resumes when that call settles.  Each such segment is one  *)
(* action.  Several invocations may be suspended at the same time; their   *)
(* segments interleave on the single JavaScript thread.                    *)
(***************************************************************************)
EXTENDS Integers, Sequences, FiniteSets, TLC

VARIABLES isProcessing, error, flows

vars == <<isProcessing, error, flows>>

----------------------------------------------------------------------------
(* Bounds *)

\* Number of invocations made on one hook instance (slot k is the k-th call).
MaxInv == 2

Inv == 1..MaxInv

----------------------------------------------------------------------------
(* JavaScript values *)

Undefined == "undefined"

Null == "null"

\* Truthiness of a value of type string | undefined (!x, x || y, if (x)).
Truthy(v) == v # Undefined /\ v # ""

\* A thrown value: an Error carrying a message, or some other value.
Exception(isErr, msg) == [isError |-> isErr, message |-> msg]

NoException == Exception(FALSE, Undefined)

----------------------------------------------------------------------------
(* Inputs *)

Finite(n) == [finite |-> TRUE, value |-> n]

NaN == [finite |-> FALSE, value |-> 0]

WalletAddress == "0xwallet"

PaymentData(orderId, amount) ==
    [orderId |-> orderId, amount |-> amount, walletAddress |-> WalletAddress]

\* Amounts a caller may pass: valid ones, and zero, negative and non-finite.
ValidAmounts == {Finite(2)}

InvalidAmounts == {Finite(0), Finite(-1), NaN}

Amounts == ValidAmounts \cup InvalidAmounts

Requests == {PaymentData("order-1", a) : a \in Amounts}

NoData == PaymentData(Undefined, NaN)

----------------------------------------------------------------------------
(* External collaborators (../utils/paymentService, paymentVerification) *)

TOKEN_DECIMALS == 18

InvalidAmount == "InvalidAmount"

\* A computation that either yields a value or throws.
Value(v) == [threw |-> FALSE, value |-> v, exc |-> NoException]

Throw(e) == [threw |-> TRUE, value |-> <<>>, exc |-> e]

\* wldToWei: amount * 10^18 as an integer, kept as <<amount, 18>>; fails
\* with InvalidAmount when the amount is non-finite, negative or zero.
wldToWei(amount) ==
    IF ~amount.finite \/ amount.value <= 0
    THEN Throw(Exception(TRUE, InvalidAmount))
    ELSE Value(<<amount.value, TOKEN_DECIMALS>>)

\* What an awaited external call settles with: a finalPayload, a boolean
\* (allowance predicate) or a thrown value.
Outcome(thrown, exc, status, code, tx, val) ==
    [thrown |-> thrown, exc |-> exc, status |-> status,
     error_code |-> code, transaction_id |-> tx, value |-> val]

ErrorPayload(code) == Outcome(FALSE, NoException, "error", code, Undefined, FALSE)

SuccessPayload(tx) == Outcome(FALSE, NoException, "success", Undefined, tx, FALSE)

Rejected(e) == Outcome(TRUE, e, Undefined, Undefined, Undefined, FALSE)

Resolved(b) == Outcome(FALSE, NoException, Undefined, Undefined, Undefined, b)

ErrorCodes == {Undefined, "user_rejected"}

\* An Error with a message, an Error without one (new Error()), a non-Error.
ThrownValues ==
    {Exception(TRUE, "network_error"), Exception(TRUE, ""),
     Exception(FALSE, Undefined)}

ApprovalTx == "0xapproval"

PaymentTx == "0xpayment"

WalletOutcomes(tx) ==
    {ErrorPayload(c) : c \in ErrorCodes}
    \cup {SuccessPayload(t) : t \in {Undefined, tx}}
    \cup {Rejected(e) : e \in ThrownValues}

ConfirmationOutcomes ==
    {Resolved(TRUE), Rejected(Exception(TRUE, "Transaction confirmation timeout"))}

AllowanceOutcomes ==
    {Resolved(TRUE), Resolved(FALSE)} \cup {Rejected(e) : e \in ThrownValues}

\* A call issued to a collaborator, with its arguments.
Call(op, amount, referenceId, addresses, tx) ==
    [op |-> op, amount |-> amount, referenceId |-> referenceId,
     addresses |-> addresses, transactionId |-> tx]

CallPayment(amountInWei, data) ==
    Call("executePaymentService", amountInWei, data.orderId,
         <<"WLD_TOKEN_ADDRESS", "RECIPIENT_ADDRESS">>, Undefined)

CallSmartPayment(amountInWei, data) ==
    Call("executeSmartPayment", amountInWei, data.orderId,
         <<data.walletAddress>>, Undefined)

CallApproval(amountInWei) ==
    Call("approveWLDSpending", amountInWei, Undefined, <<>>, Undefined)

CallAllowance(walletAddress, amountInWei) ==
    Call("hassufficientAllowance", amountInWei, Undefined, <<walletAddress>>, Undefined)

CallConfirmation(tx) ==
    Call("waitForTransactionConfirmation", <<>>, Undefined, <<>>, tx)

----------------------------------------------------------------------------
(* One invocation: its locals, its position and what it has done so far *)

\* pc: "idle" (not yet called), "awaitApproval", "awaitPayment", "awaitSmart",
\* "awaitConfirm", "awaitAllowance" (suspended on that call), "done".
\* calls[k] is the k-th external call issued and returns[k] what it settled
\* with; updates are the setIsProcessing / setError calls made, in order;
\* conversions counts the wldToWei calls made.
IdleFlow ==
    [kind |-> "none", pc |-> "idle", data |-> NoData, amountInWei |-> <<>>,
     transactionId |-> Undefined, settled |-> "pending", result |-> <<>>,
     toasts |-> <<>>, calls |-> <<>>, returns |-> <<>>, updates |-> <<>>,
     conversions |-> 0]

PaymentResult(success, tx, err) ==
    [success |-> success, transactionId |-> tx, error |-> err]

setIsProcessing(fl, v) ==
    [fl EXCEPT !.updates = Append(@, <<"setIsProcessing", v>>)]

setError(fl, v) == [fl EXCEPT !.updates = Append(@, <<"setError", v>>)]

\* Mutant of Catch: the catch block forgets setError(errorMessage).
CatchWithoutSetError(fl, exc, fallback) ==
    LET errorMessage == IF exc.isError THEN exc.message ELSE fallback
    IN  [fl EXCEPT !.toasts = Append(@, <<"error", errorMessage>>),
                   !.result = <<[success |-> FALSE, transactionId |-> Undefined,
                                 error |-> errorMessage]>>]

\* Mutant of Catch: the thrown Error's message is replaced by the fallback.
CatchWithFallbackOnly(fl, exc, fallback) ==
    [fl EXCEPT !.updates = Append(@, <<"setError", fallback>>),
               !.toasts = Append(@, <<"error", fallback>>),
               !.result = <<[success |-> FALSE, transactionId |-> Undefined,
                             error |-> fallback]>>]

\* Mutant of toast: toast.error is dropped, only successes are announced.
toastSuccessOnly(fl, level, msg) ==
    IF level = "error" THEN fl ELSE [fl EXCEPT !.toasts = Append(@, <<level, msg>>)]

toast(fl, level, msg) == [fl EXCEPT !.toasts = Append(@, <<level, msg>>)]

\* wldToWei(...) is evaluated once more.
Converting(fl) == [fl EXCEPT !.conversions = @ + 1]

\* Issue an external call and suspend on it.
Await(fl, c, at) == [fl EXCEPT !.calls = Append(@, c), !.pc = at]

\* Resume with what the awaited call settled with.
Receive(fl, r) == [fl EXCEPT !.returns = Append(@, r)]

\* return <value> inside try or catch: the promise's value, settled once the
\* finally block has run.
Return(fl, v) == [fl EXCEPT !.result = <<v>>]

\* Mutant of Begin: the flow forgets setError(null).
BeginWithoutReset(fl, kind, data) ==
    setIsProcessing([fl EXCEPT !.kind = kind, !.data = data], TRUE)

\* Mutant of Begin: the flow forgets setIsProcessing(true).
BeginWithoutFlag(fl, kind, data) ==
    setError([fl EXCEPT !.kind = kind, !.data = data], Null)

\* setIsProcessing(true); setError(null);
Begin(fl, kind, data) ==
    setError(setIsProcessing([fl EXCEPT !.kind = kind, !.data = data], TRUE), Null)

PaymentFallback == "Payment processing failed"

ApprovalFallback == "Token approval failed"

NoTransactionId == "No transaction ID received from payment"

PaymentSuccessToast == "Payment successful!"

ApprovalSuccessToast ==
    "Token approval successful! You can now proceed with payment."

\* catch (error) { errorMessage = error instanceof Error ? error.message
\* : fallback; setError(errorMessage); toast.error(errorMessage);
\* return {success: false, error: errorMessage} }
Catch(fl, exc, fallback) ==
    LET errorMessage == IF exc.isError THEN exc.message ELSE fallback
    IN  Return(toast(setError(fl, errorMessage), "error", errorMessage),
               PaymentResult(FALSE, Undefined, errorMessage))

\* Mutant of Finally: the invocation stays suspended after its finally block.
FinallyStaysPending(fl) ==
    [setIsProcessing(fl, FALSE) EXCEPT !.settled = "fulfilled"]

\* Mutant of Finally: the finally block forgets setIsProcessing(false).
FinallyLeavesProcessing(fl) ==
    [fl EXCEPT !.pc = "done", !.settled = "fulfilled"]

\* finally { setIsProcessing(false) }, after which the promise is fulfilled.
Finally(fl) ==
    [setIsProcessing(fl, FALSE) EXCEPT !.pc = "done", !.settled = "fulfilled"]

\* throw new Error(errorCode) / throw new Error("payment_failed")
PaymentError(code) ==
    Exception(TRUE, IF Truthy(code) THEN code ELSE "payment_failed")

\* Mutant of ApprovalError: the approval fallback is the payment literal.
ApprovalErrorAsPayment(code) ==
    Exception(TRUE, IF Truthy(code) THEN code ELSE "payment_failed")

\* throw new Error(errorPayload.error_code || "approval_failed")
ApprovalError(code) ==
    Exception(TRUE, IF Truthy(code) THEN code ELSE "approval_failed")

\* Mutant of PaymentResponse: a missing transaction id is tolerated, as in
\* approveTokens.
PaymentResponseTolerant(fl, r) ==
    IF r.thrown THEN Finally(Catch(fl, r.exc, PaymentFallback))
    ELSE IF r.status = "error"
    THEN Finally(Catch(fl, PaymentError(r.error_code), PaymentFallback))
    ELSE IF ~Truthy(r.transaction_id)
    THEN Finally(Return(toast(fl, "success", PaymentSuccessToast),
                        PaymentResult(TRUE, r.transaction_id, Undefined)))
    ELSE Await([fl EXCEPT !.transactionId = r.transaction_id],
               CallConfirmation(r.transaction_id), "awaitConfirm")

\* Steps 3-4 of the payment flows: inspect the wallet client's response and,
\* when it carries a transaction id, wait for confirmation.
PaymentResponse(fl, r) ==
    IF r.thrown THEN Finally(Catch(fl, r.exc, PaymentFallback))
    ELSE IF r.status = "error"
    THEN Finally(Catch(fl, PaymentError(r.error_code), PaymentFallback))
    ELSE IF ~Truthy(r.transaction_id)
    THEN Finally(Catch(fl, Exception(TRUE, NoTransactionId), PaymentFallback))
    ELSE Await([fl EXCEPT !.transactionId = r.transaction_id],
               CallConfirmation(r.transaction_id), "awaitConfirm")

\* Mutant of Confirmation: a watcher failure is escalated to the catch block.
ConfirmationEscalates(fl, w, msg) ==
    IF w.thrown THEN Finally(Catch(fl, w.exc, PaymentFallback))
    ELSE Finally(Return(toast(fl, "success", msg),
                        PaymentResult(TRUE, fl.transactionId, Undefined)))

\* try { await waitForTransactionConfirmation(id) } catch { warn }; then
\* toast.success(msg); return {success: true, transactionId}
Confirmation(fl, w, msg) ==
    Finally(Return(toast(fl, "success", msg),
                   PaymentResult(TRUE, fl.transactionId, Undefined)))

\* Mutant of processPaymentStart: the wallet call is issued with the scaled
\* amount without looking at whether the conversion failed.
processPaymentStartUnchecked(fl, data) ==
    LET f0 == Begin(fl, "processPayment", data)
        amountInWei == <<data.amount.value, TOKEN_DECIMALS>>
    IN  Await([Converting(f0) EXCEPT !.amountInWei = amountInWei],
              CallPayment(amountInWei, data), "awaitPayment")

\* processPayment up to its first await: convert the amount, then issue
\* executePaymentService({amount, referenceId}, token, recipient).
processPaymentStart(fl, data) ==
    LET f0 == Begin(fl, "processPayment", data)
        amountInWei == wldToWei(data.amount)
    IN  IF amountInWei.threw
        THEN Finally(Catch(Converting(f0), amountInWei.exc, PaymentFallback))
        ELSE Await([Converting(f0) EXCEPT !.amountInWei = amountInWei.value],
                   CallPayment(amountInWei.value, data), "awaitPayment")

\* Mutant of executePaymentOnlyStart: the payment is referenced by the wallet
\* address instead of the order id.
executePaymentOnlyStartByWallet(fl, data) ==
    LET f0 == Begin(fl, "executePaymentOnly", data)
        amountInWei == wldToWei(data.amount)
    IN  IF amountInWei.threw
        THEN Finally(Catch(Converting(f0), amountInWei.exc, PaymentFallback))
        ELSE Await([Converting(f0) EXCEPT !.amountInWei = amountInWei.value],
                   CallPayment(amountInWei.value,
                               [data EXCEPT !.orderId = data.walletAddress]),
                   "awaitPayment")

\* executePaymentOnly up to its first await: the same steps as processPayment.
executePaymentOnlyStart(fl, data) ==
    LET f0 == Begin(fl, "executePaymentOnly", data)
        amountInWei == wldToWei(data.amount)
    IN  IF amountInWei.threw
        THEN Finally(Catch(Converting(f0), amountInWei.exc, PaymentFallback))
        ELSE Await([Converting(f0) EXCEPT !.amountInWei = amountInWei.value],
                   CallPayment(amountInWei.value, data), "awaitPayment")

\* Mutant of processSmartPaymentStart: the flow pays through the direct
\* payment operation.
processSmartPaymentStartDirect(fl, data) ==
    LET f0 == Begin(fl, "processSmartPayment", data)
        amountInWei == wldToWei(data.amount)
    IN  IF amountInWei.threw
        THEN Finally(Catch(Converting(f0), amountInWei.exc, PaymentFallback))
        ELSE Await([Converting(f0) EXCEPT !.amountInWei = amountInWei.value],
                   CallPayment(amountInWei.value, data), "awaitPayment")

\* processSmartPayment issues executeSmartPayment({amount, referenceId},
\* walletAddress) instead.
processSmartPaymentStart(fl, data) ==
    LET f0 == Begin(fl, "processSmartPayment", data)
        amountInWei == wldToWei(data.amount)
    IN  IF amountInWei.threw
        THEN Finally(Catch(Converting(f0), amountInWei.exc, PaymentFallback))
        ELSE Await([Converting(f0) EXCEPT !.amountInWei = amountInWei.value],
                   CallSmartPayment(amountInWei.value, data), "awaitSmart")

\* processPaymentWithApproval first issues approveWLDSpending(amountInWei).
processPaymentWithApprovalStart(fl, data) ==
    LET f0 == Begin(fl, "processPaymentWithApproval", data)
        amountInWei == wldToWei(data.amount)
    IN  IF amountInWei.threw
        THEN Finally(Catch(Converting(f0), amountInWei.exc, PaymentFallback))
        ELSE Await([Converting(f0) EXCEPT !.amountInWei = amountInWei.value],
                   CallApproval(amountInWei.value), "awaitApproval")

\* Mutant of PaymentApprovalResponse: the approval's error status is not
\* inspected, the payment is issued whenever the approval call returns.
PaymentApprovalResponseUnchecked(fl, r) ==
    IF r.thrown THEN Finally(Catch(fl, r.exc, PaymentFallback))
    ELSE Await(fl, CallPayment(fl.amountInWei, fl.data), "awaitPayment")

\* Mutant of PaymentApprovalResponse: the amount is converted a second time
\* for the payment call.
PaymentApprovalResponseReconverts(fl, r) ==
    IF r.thrown THEN Finally(Catch(fl, r.exc, PaymentFallback))
    ELSE IF r.status = "error"
    THEN Finally(Catch(fl, ApprovalError(r.error_code), PaymentFallback))
    ELSE LET again == wldToWei(fl.data.amount)
         IN  Await([Converting(fl) EXCEPT !.amountInWei = again.value],
                   CallPayment(again.value, fl.data), "awaitPayment")

\* Mutant of PaymentApprovalResponse: the approval transaction is confirmed
\* through the watcher instead of going on to the payment.
PaymentApprovalResponseConfirmsApproval(fl, r) ==
    IF r.thrown THEN Finally(Catch(fl, r.exc, PaymentFallback))
    ELSE IF r.status = "error"
    THEN Finally(Catch(fl, ApprovalError(r.error_code), PaymentFallback))
    ELSE IF Truthy(r.transaction_id)
    THEN Await([fl EXCEPT !.transactionId = r.transaction_id],
               CallConfirmation(r.transaction_id), "awaitConfirm")
    ELSE Await(fl, CallPayment(fl.amountInWei, fl.data), "awaitPayment")

\* processPaymentWithApproval after the approval call settles.
PaymentApprovalResponse(fl, r) ==
    IF r.thrown THEN Finally(Catch(fl, r.exc, PaymentFallback))
    ELSE IF r.status = "error"
    THEN Finally(Catch(fl, ApprovalError(r.error_code), PaymentFallback))
    ELSE Await(fl, CallPayment(fl.amountInWei, fl.data), "awaitPayment")

approveTokensStart(fl, walletAddress, amount) ==
    LET f0 == Begin(fl, "approveTokens",
                    [orderId |-> Undefined, amount |-> amount,
                     walletAddress |-> walletAddress])
        amountInWei == wldToWei(amount)
    IN  IF amountInWei.threw
        THEN Finally(Catch(Converting(f0), amountInWei.exc, ApprovalFallback))
        ELSE Await([Converting(f0) EXCEPT !.amountInWei = amountInWei.value],
                   CallApproval(amountInWei.value), "awaitApproval")

\* approveTokens after the approval call settles.
ApproveTokensResponse(fl, r) ==
    IF r.thrown THEN Finally(Catch(fl, r.exc, ApprovalFallback))
    ELSE IF r.status = "error"
    THEN Finally(Catch(fl, ApprovalError(r.error_code), ApprovalFallback))
    ELSE LET f1 == [fl EXCEPT !.transactionId = r.transaction_id]
         IN  IF Truthy(r.transaction_id)
             THEN Await(f1, CallConfirmation(r.transaction_id), "awaitConfirm")
             ELSE Finally(Return(toast(f1, "success", ApprovalSuccessToast),
                                 PaymentResult(TRUE, f1.transactionId, Undefined)))

\* Mutant of checkAllowanceStart: the query marks the hook as processing and
\* clears the error like the flows do.
checkAllowanceStartAsFlow(fl, walletAddress, amount) ==
    LET f0 == setError(setIsProcessing(
                  [fl EXCEPT !.kind = "checkAllowance",
                             !.data = [orderId |-> Undefined, amount |-> amount,
                                       walletAddress |-> walletAddress]],
                  TRUE), Null)
        amountInWei == wldToWei(amount)
    IN  IF amountInWei.threw
        THEN [Return(Converting(f0), FALSE) EXCEPT !.pc = "done", !.settled = "fulfilled"]
        ELSE Await([Converting(f0) EXCEPT !.amountInWei = amountInWei.value],
                   CallAllowance(walletAddress, amountInWei.value),
                   "awaitAllowance")

\* checkAllowance touches neither isProcessing nor error.
checkAllowanceStart(fl, walletAddress, amount) ==
    LET f0 == [fl EXCEPT !.kind = "checkAllowance",
                         !.data = [orderId |-> Undefined, amount |-> amount,
                                   walletAddress |-> walletAddress]]
        amountInWei == wldToWei(amount)
    IN  IF amountInWei.threw
        THEN [Return(Converting(f0), FALSE) EXCEPT !.pc = "done", !.settled = "fulfilled"]
        ELSE Await([Converting(f0) EXCEPT !.amountInWei = amountInWei.value],
                   CallAllowance(walletAddress, amountInWei.value),
                   "awaitAllowance")

\* Mutant of AllowanceResponse: the catch block is missing, a throwing
\* predicate rejects the promise checkAllowance returned.
AllowanceResponseUncaught(fl, r) ==
    IF r.thrown
    THEN [fl EXCEPT !.pc = "done", !.settled = "rejected"]
    ELSE [Return(fl, r.value) EXCEPT !.pc = "done", !.settled = "fulfilled"]

AllowanceResponse(fl, r) ==
    [Return(fl, IF r.thrown THEN FALSE ELSE r.value)
        EXCEPT !.pc = "done", !.settled = "fulfilled"]

----------------------------------------------------------------------------
(* The shared state and the actions *)

\* The value a useState cell holds after the setter calls in upds.
LastSet(upds, setter, current) ==
    LET at == {k \in 1..Len(upds) : upds[k][1] = setter}
    IN  IF at = {} THEN current
        ELSE upds[CHOOSE k \in at : \A j \in at : j <= k][2]

\* The setter calls a segment added to the flow's record.
NewUpdates(old, new) == SubSeq(new.updates, Len(old.updates) + 1, Len(new.updates))

\* Run one segment of invocation i: its record and the state cells change.
Commit(i, fl) ==
    /\ flows' = [flows EXCEPT ![i] = fl]
    /\ isProcessing' = LastSet(NewUpdates(flows[i], fl), "setIsProcessing", isProcessing)
    /\ error' = LastSet(NewUpdates(flows[i], fl), "setError", error)

\* Mutant of CanInvoke: a call made while a flow is processing is rejected.
CanInvokeWhenNotProcessing(i) ==
    /\ flows[i].pc = "idle"
    /\ \A j \in Inv : j < i => flows[j].pc # "idle"
    /\ ~isProcessing

\* The hook takes every call: nothing guards, queues or deduplicates it.
\* (Slot i is the i-th call made.)
CanInvoke(i) ==
    /\ flows[i].pc = "idle"
    /\ \A j \in Inv : j < i => flows[j].pc # "idle"

Init ==
    /\ isProcessing = FALSE
    /\ error = Null
    /\ flows = [i \in Inv |-> IdleFlow]

processPayment(i, data) ==
    /\ CanInvoke(i)
    /\ Commit(i, processPaymentStart(flows[i], data))

processPaymentWithApproval(i, data) ==
    /\ CanInvoke(i)
    /\ Commit(i, processPaymentWithApprovalStart(flows[i], data))

processSmartPayment(i, data) ==
    /\ CanInvoke(i)
    /\ Commit(i, processSmartPaymentStart(flows[i], data))

approveTokens(i, walletAddress, amount) ==
    /\ CanInvoke(i)
    /\ Commit(i, approveTokensStart(flows[i], walletAddress, amount))

executePaymentOnly(i, data) ==
    /\ CanInvoke(i)
    /\ Commit(i, executePaymentOnlyStart(flows[i], data))

checkAllowance(i, walletAddress, amount) ==
    /\ CanInvoke(i)
    /\ Commit(i, checkAllowanceStart(flows[i], walletAddress, amount))

\* await approveWLDSpending(amountInWei) settles.
approveWLDSpendingSettles(i, r) ==
    /\ flows[i].pc = "awaitApproval"
    /\ Commit(i, IF flows[i].kind = "approveTokens"
                 THEN ApproveTokensResponse(Receive(flows[i], r), r)
                 ELSE PaymentApprovalResponse(Receive(flows[i], r), r))

\* await executePaymentService(...) settles.
executePaymentServiceSettles(i, r) ==
    /\ flows[i].pc = "awaitPayment"
    /\ Commit(i, PaymentResponse(Receive(flows[i], r), r))

\* await executeSmartPayment(...) settles.
executeSmartPaymentSettles(i, r) ==
    /\ flows[i].pc = "awaitSmart"
    /\ Commit(i, PaymentResponse(Receive(flows[i], r), r))

\* await waitForTransactionConfirmation(transactionId) settles.
waitForTransactionConfirmationSettles(i, w) ==
    /\ flows[i].pc = "awaitConfirm"
    /\ Commit(i, Confirmation(Receive(flows[i], w), w,
                              IF flows[i].kind = "approveTokens"
                              THEN ApprovalSuccessToast
                              ELSE PaymentSuccessToast))

\* await hassufficientAllowance(walletAddress, amountInWei) settles.
hassufficientAllowanceSettles(i, r) ==
    /\ flows[i].pc = "awaitAllowance"
    /\ Commit(i, AllowanceResponse(Receive(flows[i], r), r))

Next ==
    \/ \E i \in Inv, data \in Requests : processPayment(i, data)
    \/ \E i \in Inv, data \in Requests : processPaymentWithApproval(i, data)
    \/ \E i \in Inv, data \in Requests : processSmartPayment(i, data)
    \/ \E i \in Inv, data \in Requests : executePaymentOnly(i, data)
    \/ \E i \in Inv, a \in Amounts : approveTokens(i, WalletAddress, a)
    \/ \E i \in Inv, a \in Amounts : checkAllowance(i, WalletAddress, a)
    \/ \E i \in Inv, r \in WalletOutcomes(ApprovalTx) : approveWLDSpendingSettles(i, r)
    \/ \E i \in Inv, r \in WalletOutcomes(PaymentTx) : executePaymentServiceSettles(i, r)
    \/ \E i \in Inv, r \in WalletOutcomes(PaymentTx) : executeSmartPaymentSettles(i, r)
    \/ \E i \in Inv, w \in ConfirmationOutcomes : waitForTransactionConfirmationSettles(i, w)
    \/ \E i \in Inv, r \in AllowanceOutcomes : hassufficientAllowanceSettles(i, r)

Spec == Init /\ [][Next]_vars

----------------------------------------------------------------------------
(* Vocabulary of the properties *)

FlowKinds ==
    {"processPayment", "processPaymentWithApproval", "processSmartPayment",
     "approveTokens", "executePaymentOnly"}

PaymentKinds == FlowKinds \ {"approveTokens"}

WalletOps == {"executePaymentService", "executeSmartPayment", "approveWLDSpending"}

PaymentOps == {"executePaymentService", "executeSmartPayment"}

IsFlow(i) == flows[i].kind \in FlowKinds

Done(i) == flows[i].pc = "done"

InFlight(i) == IsFlow(i) /\ flows[i].pc \notin {"idle", "done"}

\* Number of external calls of invocation i that have settled.
Settled(i) == Len(flows[i].returns)

\* The k-th external call of invocation i has settled with a thrown value /
\* an error payload / a success payload.
Threw(i, k) == k \in 1..Settled(i) /\ flows[i].returns[k].thrown

ReturnedError(i, k) ==
    k \in 1..Settled(i) /\ ~flows[i].returns[k].thrown
                        /\ flows[i].returns[k].status = "error"

ReturnedSuccess(i, k) ==
    k \in 1..Settled(i) /\ ~flows[i].returns[k].thrown
                        /\ flows[i].returns[k].status = "success"

Op(i, k) == flows[i].calls[k].op

TheResult(i) == flows[i].result[1]

Failed(i, msg) ==
    /\ Done(i)
    /\ flows[i].settled = "fulfilled"
    /\ flows[i].result = <<PaymentResult(FALSE, Undefined, msg)>>

Succeeded(i, tx) ==
    /\ Done(i)
    /\ flows[i].settled = "fulfilled"
    /\ flows[i].result = <<PaymentResult(TRUE, tx, Undefined)>>

\* Invocation i called setError with something other than null.
SetsError(i) ==
    \E k \in 1..Len(flows[i].updates) :
        flows[i].updates[k][1] = "setError" /\ flows[i].updates[k][2] # Null

----------------------------------------------------------------------------
(* C1 *)

\* C1: the last state update of every resolved flow invocation is
\* setIsProcessing(false), whatever exit path it took, and whenever no flow
\* is in flight isProcessing is false.
C1_IsProcessingRestored ==
    /\ \A i \in Inv :
          IsFlow(i) /\ Done(i) =>
              LET n == Len(flows[i].updates)
              IN  /\ n >= 1
                  /\ flows[i].updates[n][1] = "setIsProcessing"
                  /\ flows[i].updates[n][2] = FALSE
    /\ (\A i \in Inv : ~InFlight(i)) => isProcessing = FALSE

\* Two flows have resolved, one with success and one with failure.
C1_Witness ==
    /\ \E i, j \in Inv :
          /\ IsFlow(i) /\ Done(i) /\ TheResult(i).success
          /\ IsFlow(j) /\ Done(j) /\ ~TheResult(j).success
    /\ \A i \in Inv : ~InFlight(i)
    /\ isProcessing = FALSE

----------------------------------------------------------------------------
(* C2 *)

\* The error processPaymentWithApproval reports for a failed approval call.
ApprovalFailureMessage(r) ==
    IF r.thrown
    THEN (IF r.exc.isError THEN r.exc.message ELSE "Payment processing failed")
    ELSE (IF r.error_code # Undefined THEN r.error_code ELSE "approval_failed")

\* C2: processPaymentWithApproval issues the payment call only after its
\* approval call returned a non-error outcome; when the approval call throws
\* or returns an error outcome no payment call is ever issued and the flow
\* resolves with the approval failure.
C2_NoPaymentAfterFailedApproval ==
    \A i \in Inv :
        flows[i].kind = "processPaymentWithApproval" =>
            /\ \A k \in 1..Len(flows[i].calls) :
                  Op(i, k) = "executePaymentService" =>
                      /\ k = 2
                      /\ Op(i, 1) = "approveWLDSpending"
                      /\ ReturnedSuccess(i, 1)
            /\ (Threw(i, 1) \/ ReturnedError(i, 1)) =>
                  /\ Len(flows[i].calls) = 1
                  /\ Failed(i, ApprovalFailureMessage(flows[i].returns[1]))

\* One processPaymentWithApproval resolved after its approval returned an
\* error outcome, another after its approval threw.
C2_Witness ==
    \E i, j \in Inv :
        /\ flows[i].kind = "processPaymentWithApproval" /\ Done(i)
        /\ ReturnedError(i, 1)
        /\ flows[j].kind = "processPaymentWithApproval" /\ Done(j)
        /\ Threw(j, 1)

----------------------------------------------------------------------------
(* C3 *)

\* C3: in every flow, when the confirmation watcher fails after the wallet
\* client returned a success outcome with a transaction id, the flow returns
\* {success: true, transactionId} with that id, shows the success
\* notification and never sets the error state.
C3_ConfirmationFailureAbsorbed ==
    \A i \in Inv :
        \A k \in 2..Settled(i) :
            IsFlow(i) /\ Op(i, k) = "waitForTransactionConfirmation" /\ Threw(i, k)
            =>  /\ ReturnedSuccess(i, k - 1)
                /\ Op(i, k - 1) \in WalletOps
                /\ Succeeded(i, flows[i].returns[k - 1].transaction_id)
                /\ flows[i].returns[k - 1].transaction_id # Undefined
                /\ Len(flows[i].toasts) = 1
                /\ flows[i].toasts[1][1] = "success"
                /\ ~SetsError(i)

\* A payment flow and an approveTokens invocation whose confirmation failed.
C3_Witness ==
    \E i, j \in Inv :
        /\ flows[i].kind \in PaymentKinds /\ Done(i)
        /\ Threw(i, Settled(i))
        /\ Op(i, Settled(i)) = "waitForTransactionConfirmation"
        /\ flows[j].kind = "approveTokens" /\ Done(j)
        /\ Threw(j, Settled(j))
        /\ Op(j, Settled(j)) = "waitForTransactionConfirmation"

----------------------------------------------------------------------------
(* C4 *)

\* C4: when a wallet-client call returns an error outcome the flow returns
\* {success: false, error: e}, e being the outcome's error code if it has
\* one, else "payment_failed" for a payment call and "approval_failed" for
\* an approval call.
C4_ErrorCodeNormalised ==
    \A i \in Inv :
        \A k \in 1..Settled(i) :
            IsFlow(i) /\ Op(i, k) \in WalletOps /\ ReturnedError(i, k) =>
                LET code == flows[i].returns[k].error_code
                IN  Failed(i, IF code # Undefined THEN code
                              ELSE IF Op(i, k) = "approveWLDSpending"
                                   THEN "approval_failed"
                                   ELSE "payment_failed")

\* An approval call and a payment call each returned an error outcome
\* without a code.
C4_Witness ==
    \E i, j \in Inv :
        /\ ReturnedError(i, Settled(i)) /\ Op(i, Settled(i)) = "approveWLDSpending"
        /\ flows[i].returns[Settled(i)].error_code = Undefined
        /\ ReturnedError(j, Settled(j)) /\ Op(j, Settled(j)) \in PaymentOps
        /\ flows[j].returns[Settled(j)].error_code = Undefined

----------------------------------------------------------------------------
(* C5 *)

\* The k-th call of invocation i returned a success payload without a
\* transaction id.
SuccessWithoutId(i, k) ==
    ReturnedSuccess(i, k) /\ flows[i].returns[k].transaction_id = Undefined

NoConfirmationCall(i) ==
    \A k \in 1..Len(flows[i].calls) : Op(i, k) # "waitForTransactionConfirmation"

\* C5 as stated: whenever a wallet-client call of a payment flow returned a
\* success outcome without a transaction id, the flow resolves with
\* {success: false, error: "No transaction ID received from payment"} and
\* never calls the confirmation watcher; approveTokens returns
\* {success: true} without a transaction id and without calling the watcher.
C5_Original ==
    \A i \in Inv :
        \A k \in 1..Settled(i) :
            IsFlow(i) /\ Op(i, k) \in WalletOps /\ SuccessWithoutId(i, k) =>
                IF flows[i].kind = "approveTokens"
                THEN Succeeded(i, Undefined) /\ NoConfirmationCall(i)
                ELSE /\ Done(i) => Failed(i, NoTransactionId)
                     /\ NoConfirmationCall(i)

\* C5 (amended): whenever the payment call (executePaymentService or
\* executeSmartPayment) of a payment flow returned a success outcome without
\* a transaction id, the flow resolves at once with {success: false, error:
\* "No transaction ID received from payment"} and never calls the watcher;
\* approveTokens, when its approval call did so, returns {success: true}
\* with no transaction id and no watcher call; in
\* processPaymentWithApproval an approval outcome without a transaction id
\* does not fail the flow, it goes on to the payment call.
C5_MissingTransactionId ==
    \A i \in Inv :
        \A k \in 1..Settled(i) :
            IsFlow(i) /\ Op(i, k) \in WalletOps /\ SuccessWithoutId(i, k) =>
                IF flows[i].kind = "approveTokens"
                THEN Succeeded(i, Undefined) /\ NoConfirmationCall(i)
                ELSE IF Op(i, k) \in PaymentOps
                THEN Failed(i, NoTransactionId) /\ NoConfirmationCall(i)
                ELSE /\ flows[i].kind = "processPaymentWithApproval"
                     /\ k = 1
                     /\ Len(flows[i].calls) >= 2
                     /\ Op(i, 2) = "executePaymentService"

\* A payment flow failed for a missing transaction id and an approveTokens
\* invocation succeeded without one.
C5_Witness ==
    \E i, j \in Inv :
        /\ flows[i].kind \in PaymentKinds /\ Done(i)
        /\ SuccessWithoutId(i, Settled(i)) /\ Op(i, Settled(i)) \in PaymentOps
        /\ flows[j].kind = "approveTokens" /\ Done(j)
        /\ SuccessWithoutId(j, 1)

----------------------------------------------------------------------------
(* C6 *)

\* C6: a flow invocation has shown no notification while it is pending and
\* exactly one when it has resolved: a success notification iff it returned
\* success: true, an error notification iff it returned success: false.
C6_ExactlyOneNotification ==
    \A i \in Inv :
        IsFlow(i) =>
            IF Done(i)
            THEN /\ Len(flows[i].toasts) = 1
                 /\ flows[i].toasts[1][1] = "success" <=> TheResult(i).success
                 /\ flows[i].toasts[1][1] = "error" <=> ~TheResult(i).success
            ELSE flows[i].toasts = <<>>

\* One flow resolved with a success notification, another with an error
\* notification.
C6_Witness ==
    \E i, j \in Inv :
        /\ IsFlow(i) /\ Done(i) /\ TheResult(i).success
        /\ flows[i].toasts = <<<<"success", PaymentSuccessToast>>>>
        /\ IsFlow(j) /\ Done(j) /\ ~TheResult(j).success
        /\ flows[j].toasts = <<<<"error", "user_rejected">>>>

----------------------------------------------------------------------------
(* C7 *)

\* C7 as stated: isProcessing is true whenever a flow invocation is pending,
\* and a resolved invocation's last write left it false.
C7_Original ==
    /\ \A i \in Inv : InFlight(i) => isProcessing = TRUE
    /\ \A i \in Inv :
          IsFlow(i) /\ Done(i) =>
              flows[i].updates[Len(flows[i].updates)][2] = FALSE

\* Invocation i resolves in this step.
Resolves(i) == flows[i].pc # "done" /\ flows'[i].pc = "done" /\ IsFlow(i)'

\* Invocation i is called in this step and suspends on its first await.
Suspends(i) == flows[i].pc = "idle" /\ InFlight(i)'

\* C7 (amended): isProcessing is true once a flow invocation has started
\* and stays true until some flow invocation of the same hook instance
\* (this one or one running concurrently) resolves; it is false immediately
\* after any flow invocation resolves.  So it is true throughout an
\* invocation exactly when no other invocation resolves meanwhile.
C7_ProcessingWhileInFlight ==
    [][ /\ \A i \in Inv : Suspends(i) => isProcessing'
        /\ (isProcessing /\ \A i \in Inv : ~Resolves(i)) => isProcessing'
        /\ \A i \in Inv : Resolves(i) => ~isProcessing' ]_vars

\* A flow is suspended on the confirmation wait with isProcessing true after
\* an earlier flow has resolved.
C7_Witness ==
    \E i, j \in Inv :
        /\ InFlight(i) /\ flows[i].pc = "awaitConfirm"
        /\ IsFlow(j) /\ Done(j)
        /\ isProcessing = TRUE

----------------------------------------------------------------------------
(* C8 *)

\* The next call to be made is call number i.
NextCall(i) ==
    flows[i].pc = "idle" /\ \A j \in Inv : j < i => flows[j].pc # "idle"

\* C8: whatever other invocations are pending, the next call of any of the
\* five flows is taken (never queued, merged or rejected); every flow
\* invoked with a valid amount has issued its own wallet-client call with
\* its own referenceId, and every resolved invocation has its own result.
C8_ConcurrentInvocationsProceed ==
    /\ \A i \in Inv :
          NextCall(i) =>
              /\ ENABLED (\E d \in Requests : processPayment(i, d))
              /\ ENABLED (\E d \in Requests : processPaymentWithApproval(i, d))
              /\ ENABLED (\E d \in Requests : processSmartPayment(i, d))
              /\ ENABLED (\E d \in Requests : executePaymentOnly(i, d))
              /\ ENABLED (\E a \in Amounts : approveTokens(i, WalletAddress, a))
    /\ \A i \in Inv :
          IsFlow(i) /\ flows[i].data.amount \in ValidAmounts =>
              /\ Len(flows[i].calls) >= 1
              /\ Op(i, 1) \in WalletOps
              /\ Op(i, 1) \in PaymentOps =>
                    flows[i].calls[1].referenceId = flows[i].data.orderId
    /\ \A i \in Inv : IsFlow(i) => Len(flows[i].result) = (IF Done(i) THEN 1 ELSE 0)

\* Two payment calls carrying the same referenceId are pending together.
C8_Witness ==
    \E i, j \in Inv :
        /\ i # j
        /\ flows[i].pc = "awaitPayment" /\ flows[j].pc = "awaitPayment"
        /\ flows[i].calls[1].op = "executePaymentService"
        /\ flows[j].calls[1].op = "executePaymentService"
        /\ flows[i].calls[1].referenceId = flows[j].calls[1].referenceId

----------------------------------------------------------------------------
(* C9 *)

\* C9: checkAllowance never throws; it returns false when the amount
\* conversion or the allowance predicate throws and otherwise the boolean
\* the predicate returned.
C9_CheckAllowanceNeverThrows ==
    \A i \in Inv :
        flows[i].kind = "checkAllowance" =>
            /\ flows[i].settled # "rejected"
            /\ Done(i) =>
                  /\ flows[i].settled = "fulfilled"
                  /\ flows[i].result =
                        <<IF flows[i].calls = <<>> THEN FALSE
                          ELSE IF Threw(i, 1) THEN FALSE
                          ELSE flows[i].returns[1].value>>

\* checkAllowance resolved once after the predicate threw and once after it
\* returned true.
C9_Witness ==
    \E i, j \in Inv :
        /\ flows[i].kind = "checkAllowance" /\ Done(i) /\ Threw(i, 1)
        /\ flows[j].kind = "checkAllowance" /\ Done(j)
        /\ flows[j].result = <<TRUE>>

----------------------------------------------------------------------------
(* C10 *)

FallbackOf(i) ==
    IF flows[i].kind = "approveTokens"
    THEN "Token approval failed" ELSE "Payment processing failed"

\* C10: a failed wallet-client call or amount conversion ends the flow with
\* success: false.  When the conversion or a wallet-client call throws, the
\* flow's promise is fulfilled (nothing propagates) with {success: false,
\* error}, error being the thrown Error's message, or the flow's fixed
\* fallback when the thrown value is no Error, and no external call is
\* issued after the throw.
C10_ThrowsBecomeFailures ==
    \A i \in Inv :
        IsFlow(i) =>
            /\ flows[i].settled # "rejected"
            /\ (flows[i].pc # "idle" /\ flows[i].calls = <<>>) =>
                  /\ wldToWei(flows[i].data.amount).threw
                  /\ Failed(i, wldToWei(flows[i].data.amount).exc.message)
            /\ \A k \in 1..Settled(i) :
                  /\ (Op(i, k) \in WalletOps /\ Threw(i, k)) =>
                        /\ Failed(i, IF flows[i].returns[k].exc.isError
                                     THEN flows[i].returns[k].exc.message
                                     ELSE FallbackOf(i))
                        /\ Len(flows[i].calls) = k
                  /\ (Op(i, k) \in WalletOps /\ ReturnedError(i, k)) =>
                        /\ Done(i) /\ ~TheResult(i).success
                        /\ Len(flows[i].calls) = k

\* A payment flow resolved after its wallet call threw an Error, an
\* approveTokens invocation after its wallet call threw something else.
C10_Witness ==
    \E i, j \in Inv :
        /\ flows[i].kind \in PaymentKinds /\ Done(i)
        /\ Threw(i, Settled(i)) /\ Op(i, Settled(i)) \in PaymentOps
        /\ flows[i].returns[Settled(i)].exc.isError
        /\ flows[j].kind = "approveTokens" /\ Done(j)
        /\ Threw(j, 1) /\ ~flows[j].returns[1].exc.isError

----------------------------------------------------------------------------
(* C11 *)

\* C11: a flow invoked with a zero, negative or non-finite amount resolves
\* with {success: false, error: InvalidAmount} and never issues an external
\* call (no approval, no payment).
C11_InvalidAmountFailsEarly ==
    \A i \in Inv :
        (IsFlow(i) /\ (~flows[i].data.amount.finite
                       \/ flows[i].data.amount.value <= 0)) =>
            /\ Failed(i, InvalidAmount)
            /\ flows[i].calls = <<>>

\* One flow was invoked with a non-finite amount, another with zero.
C11_Witness ==
    \E i, j \in Inv :
        /\ IsFlow(i) /\ Done(i) /\ flows[i].data.amount = NaN
        /\ IsFlow(j) /\ Done(j) /\ flows[j].data.amount = Finite(0)

----------------------------------------------------------------------------
(* C12 *)

\* C12: processPaymentWithApproval converts the amount exactly once per
\* invocation, and its approval call and its payment call carry the same
\* minor-unit amount, the one that conversion produced.
C12_AmountConvertedOnce ==
    \A i \in Inv :
        flows[i].kind = "processPaymentWithApproval" =>
            /\ flows[i].conversions = 1
            /\ \A k \in 1..Len(flows[i].calls) :
                  Op(i, k) \in WalletOps =>
                      /\ flows[i].calls[k].amount = flows[i].calls[1].amount
                      /\ flows[i].calls[k].amount =
                            wldToWei(flows[i].data.amount).value

\* A processPaymentWithApproval invocation has issued both its approval call
\* and its payment call.
C12_Witness ==
    \E i \in Inv :
        /\ flows[i].kind = "processPaymentWithApproval"
        /\ Len(flows[i].calls) >= 2
        /\ Op(i, 1) = "approveWLDSpending"
        /\ Op(i, 2) = "executePaymentService"

----------------------------------------------------------------------------
(* C13 *)

\* C13: every PaymentResult a flow returns has exactly one meaningful
\* field: with success true the error is absent (and for the four payment
\* flows the transaction id is present and non-empty); with success false
\* the error is present and non-empty and the transaction id is absent.
C13_ExactlyOneMeaningfulField ==
    \A i \in Inv :
        (IsFlow(i) /\ Done(i)) =>
            IF TheResult(i).success
            THEN /\ TheResult(i).error = Undefined
                 /\ flows[i].kind \in PaymentKinds =>
                       TheResult(i).transactionId \notin {Undefined, ""}
            ELSE /\ TheResult(i).error \notin {Undefined, ""}
                 /\ TheResult(i).transactionId = Undefined

----------------------------------------------------------------------------
(* Flows run one at a time *)

\* The call site invokes a flow only when no flow is pending (the discipline
\* of spec section 9); checkAllowance, which is no flow, may be called at
\* any time.
OneAtATime ==
    \A i \in Inv :
        (flows[i].pc = "idle" /\ IsFlow(i)') => \A j \in Inv : ~InFlight(j)

SeqNext == Next /\ OneAtATime

SeqSpec == Init /\ [][SeqNext]_vars

\* Invocation i is the flow invoked last.
LatestFlow(i) == IsFlow(i) /\ \A j \in Inv : j > i => ~IsFlow(j)

----------------------------------------------------------------------------
(* C14 *)

\* C14 (flows run one at a time): every flow begins with
\* setIsProcessing(true); setError(null), so error is null all the while the
\* flow is pending, its external calls included; once the flow has resolved,
\* error is null if it returned success: true, even when the flow before it
\* failed, and error is non-null only if it returned success: false.
C14_ErrorResetAtStart ==
    \A i \in Inv :
        IsFlow(i) =>
            /\ Len(flows[i].updates) >= 2
            /\ flows[i].updates[1][1] = "setIsProcessing"
            /\ flows[i].updates[2][1] = "setError"
            /\ flows[i].updates[2][2] = Null
            /\ InFlight(i) => error = Null
            /\ (LatestFlow(i) /\ Done(i)) =>
                  /\ TheResult(i).success => error = Null
                  /\ error # Null => ~TheResult(i).success

\* A flow failed, the flow after it succeeded and left error null.
C14_Witness ==
    \E i, j \in Inv :
        /\ i < j
        /\ IsFlow(i) /\ Done(i) /\ ~TheResult(i).success
        /\ LatestFlow(j) /\ Done(j) /\ TheResult(j).success
        /\ error = Null

----------------------------------------------------------------------------
(* Every awaited call settles *)

\* The call invocation i is suspended on settles, with any outcome.
Settle(i) ==
    \/ \E r \in WalletOutcomes(ApprovalTx) : approveWLDSpendingSettles(i, r)
    \/ \E r \in WalletOutcomes(PaymentTx) : executePaymentServiceSettles(i, r)
    \/ \E r \in WalletOutcomes(PaymentTx) : executeSmartPaymentSettles(i, r)
    \/ \E w \in ConfirmationOutcomes : waitForTransactionConfirmationSettles(i, w)
    \/ \E r \in AllowanceOutcomes : hassufficientAllowanceSettles(i, r)

\* Every issued call eventually resolves or fails, and the event loop then
\* resumes the invocation awaiting it.
FairSpec == Spec /\ \A i \in Inv : WF_vars(Settle(i))

----------------------------------------------------------------------------
(* C15 *)

\* C15: provided every issued call eventually settles, every flow
\* invocation that was started eventually resolves; an invocation goes from
\* idle to pending to resolved and never back, has produced exactly one
\* PaymentResult when it has resolved and none before, and once resolved it
\* issues no further call and makes no further state update.
C15_RunsToCompletion ==
    /\ \A i \in Inv : InFlight(i) ~> Done(i)
    /\ [](\A i \in Inv :
            IsFlow(i) =>
                /\ flows[i].pc # "idle"
                /\ Len(flows[i].result) = (IF Done(i) THEN 1 ELSE 0)
                /\ Done(i) => TheResult(i).success \in BOOLEAN)
    /\ [][\A i \in Inv :
            /\ flows'[i].pc = "idle" => flows[i].pc = "idle"
            /\ Done(i) => flows'[i] = flows[i]]_vars

\* A flow went through both of its awaits and has resolved.
C15_Witness ==
    \E i \in Inv :
        /\ IsFlow(i) /\ Done(i)
        /\ Len(flows[i].calls) = 2 /\ Settled(i) = 2
        /\ Len(flows[i].result) = 1

----------------------------------------------------------------------------
(* C16 *)

\* The wallet-client operations invocation i has issued.
WalletCalls(i) == {k \in 1..Len(flows[i].calls) : Op(i, k) \in WalletOps}

\* Invocations i and j were given the same request and their external calls
\* have settled with the same outcomes.
SameOutcomes(i, j) ==
    /\ flows[i].data = flows[j].data
    /\ flows[i].returns = flows[j].returns

\* processSmartPayment never issues the approval or the direct payment
\* operation, and agrees with processPayment on result, error state and
\* notification when given the same outcomes.
SmartPaymentLikeProcessPayment ==
    /\ \A i \in Inv :
          flows[i].kind = "processSmartPayment" =>
              \A k \in 1..Len(flows[i].calls) :
                  Op(i, k) \in {"executeSmartPayment", "waitForTransactionConfirmation"}
    /\ \A i, j \in Inv :
          /\ flows[i].kind = "processSmartPayment"
          /\ flows[j].kind = "processPayment"
          /\ SameOutcomes(i, j)
          => /\ Done(i) <=> Done(j)
             /\ flows[i].result = flows[j].result
             /\ flows[i].updates = flows[j].updates
             /\ flows[i].toasts = flows[j].toasts

\* C16 as stated: every processSmartPayment invocation issues exactly one
\* wallet-client operation.
C16_Original ==
    /\ \A i \in Inv :
          flows[i].kind = "processSmartPayment" => Cardinality(WalletCalls(i)) = 1
    /\ SmartPaymentLikeProcessPayment

\* C16: processSmartPayment issues at most one wallet-client operation per
\* invocation, executeSmartPayment (exactly one when the amount converts,
\* none when the conversion throws), never the approval or the direct payment
\* operation, and for the same request, wallet-call outcome and watcher
\* outcome it returns the same PaymentResult, makes the same state updates
\* and shows the same notification as processPayment.
C16_SingleSmartOperation ==
    /\ \A i \in Inv :
          flows[i].kind = "processSmartPayment" =>
              Cardinality(WalletCalls(i)) =
                  (IF wldToWei(flows[i].data.amount).threw THEN 0 ELSE 1)
    /\ SmartPaymentLikeProcessPayment

\* A processSmartPayment and a processPayment invocation both resolved after
\* their wallet call returned a transaction id and the watcher failed.
C16_Witness ==
    \E i, j \in Inv :
        /\ flows[i].kind = "processSmartPayment" /\ Done(i)
        /\ flows[j].kind = "processPayment" /\ Done(j)
        /\ SameOutcomes(i, j)
        /\ Settled(i) = 2 /\ ReturnedSuccess(i, 1) /\ Threw(i, 2)
        /\ Op(i, 1) = "executeSmartPayment"
        /\ WalletCalls(i) = {1}
        /\ TheResult(i) = PaymentResult(TRUE, PaymentTx, Undefined)
        /\ flows[i].result = flows[j].result

----------------------------------------------------------------------------
(* C17 *)

\* The confirmation-watcher calls invocation i has issued.
WatcherCalls(i) ==
    {k \in 1..Len(flows[i].calls) : Op(i, k) = "waitForTransactionConfirmation"}

\* C17: an invocation calls the confirmation watcher at most once; the call
\* directly follows a wallet-client call of the same invocation that returned
\* a success payload with a non-empty transaction id, and is made with that
\* id. In processPaymentWithApproval the watcher call follows the payment
\* call only, and the payment call is issued as soon as the approval call
\* returns success.
C17_WatcherAfterSubmission ==
    \A i \in Inv :
        /\ Cardinality(WatcherCalls(i)) <= 1
        /\ \A k \in WatcherCalls(i) :
              /\ k >= 2
              /\ Op(i, k - 1) \in WalletOps
              /\ ReturnedSuccess(i, k - 1)
              /\ Truthy(flows[i].returns[k - 1].transaction_id)
              /\ flows[i].calls[k].transactionId
                    = flows[i].returns[k - 1].transaction_id
        /\ flows[i].kind = "processPaymentWithApproval" =>
              /\ \A k \in WatcherCalls(i) :
                    k = 3 /\ Op(i, 2) = "executePaymentService"
              /\ ReturnedSuccess(i, 1) =>
                    /\ Len(flows[i].calls) >= 2
                    /\ Op(i, 2) = "executePaymentService"

\* processPaymentWithApproval whose approval returned the approval
\* transaction and whose payment returned the payment transaction: the only
\* watcher call is the third call, made for the payment transaction.
C17_Witness ==
    \E i \in Inv :
        /\ flows[i].kind = "processPaymentWithApproval"
        /\ Settled(i) >= 2
        /\ ReturnedSuccess(i, 1)
        /\ flows[i].returns[1].transaction_id = ApprovalTx
        /\ ReturnedSuccess(i, 2)
        /\ WatcherCalls(i) = {3}
        /\ flows[i].calls[3] = CallConfirmation(PaymentTx)

----------------------------------------------------------------------------
(* C18 *)

\* C18: a flow that resolved with {success: false, error: e} has called
\* setError, and its last setError call was setError(e); when flows run one
\* at a time, the error field observed after the latest flow resolved with a
\* failure equals the error of its result.
C18_ErrorStateMatchesResult ==
    \A i \in Inv :
        (IsFlow(i) /\ Done(i) /\ ~TheResult(i).success) =>
            /\ \E k \in 1..Len(flows[i].updates) :
                  /\ k > 2
                  /\ flows[i].updates[k] = <<"setError", TheResult(i).error>>
            /\ LastSet(flows[i].updates, "setError", Null) = TheResult(i).error
            /\ LatestFlow(i) => error = TheResult(i).error

\* A flow failed with one message, then the next flow failed with
\* user_rejected and error holds user_rejected.
C18_Witness ==
    \E i, j \in Inv :
        /\ j < i
        /\ IsFlow(j) /\ Done(j) /\ ~TheResult(j).success
        /\ TheResult(j).error # "user_rejected"
        /\ LatestFlow(i)
        /\ Failed(i, "user_rejected")
        /\ ReturnedError(i, Settled(i))
        /\ error = "user_rejected"

----------------------------------------------------------------------------
(* C19 *)

\* C19: every step of a checkAllowance invocation leaves isProcessing and
\* error as they were, and a checkAllowance invocation never calls a state
\* setter, never shows a notification and issues no call other than the
\* allowance predicate, whether the predicate returns true, returns false or
\* throws.
C19_CheckAllowanceFrame ==
    [][\A i \in Inv :
          flows'[i].kind = "checkAllowance" =>
              /\ flows'[i].updates = <<>>
              /\ flows'[i].toasts = <<>>
              /\ \A k \in 1..Len(flows'[i].calls) :
                    flows'[i].calls[k].op = "hassufficientAllowance"
              /\ flows'[i] # flows[i] =>
                    /\ isProcessing' = isProcessing
                    /\ error' = error]_vars

\* checkAllowance resolved with false after the predicate threw, while a
\* flow invoked before it is still processing.
C19_Witness ==
    \E i, j \in Inv :
        /\ flows[i].kind = "checkAllowance"
        /\ Done(i)
        /\ Threw(i, 1)
        /\ flows[i].result = <<FALSE>>
        /\ flows[i].calls = <<CallAllowance(WalletAddress, flows[i].amountInWei)>>
        /\ InFlight(j)
        /\ isProcessing = TRUE

----------------------------------------------------------------------------
(* C20 *)

\* C20: a processPayment and an executePaymentOnly invocation given the same
\* request, whose external calls settled with the same outcomes, have issued
\* the same calls with the same arguments, are at the same point, have the
\* same PaymentResult and have made the same setIsProcessing / setError
\* calls and shown the same notifications.
C20_ExecutePaymentOnlyEquivalent ==
    \A i, j \in Inv :
        /\ flows[i].kind = "processPayment"
        /\ flows[j].kind = "executePaymentOnly"
        /\ SameOutcomes(i, j)
        => /\ flows[i].calls = flows[j].calls
           /\ flows[i].pc = flows[j].pc
           /\ flows[i].settled = flows[j].settled
           /\ flows[i].result = flows[j].result
           /\ flows[i].updates = flows[j].updates
           /\ flows[i].toasts = flows[j].toasts

\* Both operations resolved with the payment transaction after the wallet
\* call returned it and the watcher confirmed, having issued the same two
\* calls.
C20_Witness ==
    \E i, j \in Inv :
        /\ flows[i].kind = "processPayment" /\ Done(i)
        /\ flows[j].kind = "executePaymentOnly" /\ Done(j)
        /\ SameOutcomes(i, j)
        /\ Settled(j) = 2 /\ ReturnedSuccess(j, 1) /\ ~Threw(j, 2)
        /\ Len(flows[j].calls) = 2
        /\ flows[j].calls[1] = CallPayment(flows[j].amountInWei, flows[j].data)
        /\ flows[i].calls = flows[j].calls
        /\ Succeeded(i, PaymentTx) /\ Succeeded(j, PaymentTx)

====
